---- MODULE Spec2Model ----
(***************************************************************************)
(* A model of the query-qdrant MCP server (src/.kilocode/query-qdrant.py): *)
(* the relevance classifier, the content extractor, the retrieval pipeline *)
(* and the line-oriented JSON-RPC loop that drives them; and of the log    *)
(* filter filter_log (src/filter_logs.py).                                 *)
(*                                                                         *)
(* Python strings are TLA+ strings (Len, SubSeq and \o apply to them).     *)
(* Scores are integers in hundredths (0.5 is 50).  Python indices are kept *)
(* 0-based; the i-th Python element of a list xs is xs[i + 1].             *)
(***************************************************************************)
EXTENDS Integers, Sequences, FiniteSets, TLC

VARIABLES
    \* mcp_loop
    pc,          \* "AwaitingLine" while the loop runs, "Closed" once it has exited
    eof,         \* TRUE once readline() has returned '' (end of input)
    req_id,      \* the loop's req_id local
    stdin_read,  \* the lines read from standard input so far
    stdout,      \* the lines printed to standard output so far
    cause,       \* cause[k]: the index in stdin_read of the line that made stdout[k]
    config,      \* the module globals COLLECTION, BEVY_SOURCE_PATH, MIN_RELEVANCE_SCORE
    \* one call of handle_call_tool
    call_pc, call_request, call_backend, call_out,
    \* one call of read_file_content
    rf_pc, rf_path, rf_query, rf_max, rf_out,
    \* two calls of is_relevant_file with the same arguments
    cl_pc, cl_path, cl_query, cl_out, cl_again,
    \* one run of filter_log
    fl_pc, fl_lines, fl_out

loop_vars == <<pc, eof, req_id, stdin_read, stdout, cause, config>>
call_vars == <<call_pc, call_request, call_backend, call_out>>
rf_vars == <<rf_pc, rf_path, rf_query, rf_max, rf_out>>
cl_vars == <<cl_pc, cl_path, cl_query, cl_out, cl_again>>
fl_vars == <<fl_pc, fl_lines, fl_out>>
vars == <<loop_vars, call_vars, rf_vars, cl_vars, fl_vars>>

Min(a, b) == IF a < b THEN a ELSE b
Max(a, b) == IF a > b THEN a ELSE b

(***************************************************************************)
(* Python str operations                                                   *)
(***************************************************************************)
UpperChars == "ABCDEFGHIJKLMNOPQRSTUVWXYZ"
LowerChars == "abcdefghijklmnopqrstuvwxyz"
Digits == "0123456789"

CharAt(s, i) == SubSeq(s, i, i)

\* s[n:]
Drop(s, n) == SubSeq(s, n + 1, Len(s))

\* s[:n] for n >= 0
Take(s, n) == SubSeq(s, 1, Min(n, Len(s)))

LowerChar(c) ==
    IF \E i \in 1..Len(UpperChars) : CharAt(UpperChars, i) = c
    THEN CharAt(LowerChars, CHOOSE i \in 1..Len(UpperChars) : CharAt(UpperChars, i) = c)
    ELSE c

\* str.lower()
NotLowered(s) == s
RECURSIVE Lower(_)
Lower(s) == IF s = "" THEN "" ELSE LowerChar(CharAt(s, 1)) \o Lower(Drop(s, 1))

\* sub in s
Contains(s, sub) ==
    \E i \in 0..(Len(s) - Len(sub)) : SubSeq(s, i + 1, i + Len(sub)) = sub

\* s.startswith(prefix)
StartsWith(s, prefix) ==
    Len(s) >= Len(prefix) /\ SubSeq(s, 1, Len(prefix)) = prefix

IsSpace(c) == c \in {" ", "\t", "\n", "\r"}

\* str.split(): split on runs of whitespace, no empty tokens
RECURSIVE SplitWSFrom(_, _, _)
SplitWSFrom(s, cur, acc) ==
    IF s = "" THEN (IF cur = "" THEN acc ELSE Append(acc, cur))
    ELSE IF IsSpace(CharAt(s, 1))
         THEN SplitWSFrom(Drop(s, 1), "", IF cur = "" THEN acc ELSE Append(acc, cur))
         ELSE SplitWSFrom(Drop(s, 1), cur \o CharAt(s, 1), acc)

SplitWS(s) == SplitWSFrom(s, "", <<>>)

\* sorted(S) for a finite set of integers
Sorted(S) ==
    [k \in 1..Cardinality(S) |->
        CHOOSE x \in S : Cardinality({y \in S : y < x}) = k - 1]

\* str.split('\n'): the pieces between the newlines, always at least one
SplitNL(s) ==
    LET cuts == Sorted({0, Len(s) + 1} \cup {i \in 1..Len(s) : CharAt(s, i) = "\n"})
    IN  [k \in 1..(Len(cuts) - 1) |-> SubSeq(s, cuts[k] + 1, cuts[k + 1] - 1)]

\* '\n'.join(xs)
RECURSIVE JoinNL(_)
JoinNL(xs) ==
    IF Len(xs) = 0 THEN ""
    ELSE IF Len(xs) = 1 THEN xs[1]
    ELSE xs[1] \o "\n" \o JoinNL(Tail(xs))

\* str(n) for an integer n
RECURSIVE NatToStr(_)
NatToStr(n) ==
    IF n < 10 THEN CharAt(Digits, n + 1)
    ELSE NatToStr(n \div 10) \o CharAt(Digits, (n % 10) + 1)

IntToStr(n) == IF n < 0 THEN "-" \o NatToStr(0 - n) ELSE NatToStr(n)

\* s * n
RECURSIVE Rep(_, _)
Rep(s, n) == IF n <= 0 THEN "" ELSE s \o Rep(s, n - 1)

(***************************************************************************)
(* CONFIG                                                                  *)
(***************************************************************************)
COLLECTION == "bevy-0-14-2"

BEVY_SOURCE_PATH == "C:\\path\\to\\bevy-0.14.2"

\* float(os.environ.get("MIN_RELEVANCE_SCORE", "0.5")), in hundredths
MIN_RELEVANCE_SCORE == 50

\* the default of read_file_content's max_chars
DEFAULT_MAX_CHARS == 3000

\* "Limit to first 5 matches"
MATCH_LIMIT == 5

\* the context window: idx - 20 .. idx + 20 (exclusive)
CONTEXT_LINES == 20

\* the configuration as resolved at import, before mcp_loop starts
Config ==
    [COLLECTION |-> COLLECTION,
     BEVY_SOURCE_PATH |-> BEVY_SOURCE_PATH,
     MIN_RELEVANCE_SCORE |-> MIN_RELEVANCE_SCORE]

(***************************************************************************)
(* The source tree under BEVY_SOURCE_PATH: what Path.exists() and open()   *)
(* find for each path the vector store can name.                           *)
(***************************************************************************)
PadLine == "// pad\n"

BigFile ==
    Rep(PadLine, 25) \o "fn spawn_entity() {}\n" \o Rep(PadLine, 30) \o "let world = 1;"

FilePaths ==
    { "crates/bevy_ecs/src/system/query.rs",
      "crates/bevy_ecs/examples/events.rs",
      "examples/ecs/basic.rs",
      "Tests/Locked.rs",
      "benches/spawn.rs",
      "docs/guide.md",
      "src/empty.rs",
      "assets/notes.txt" }

FS(file_path) ==
    CASE file_path = "crates/bevy_ecs/src/system/query.rs" ->
            [state |-> "file", content |-> "pub struct Query;\nfn spawn() {}\n"]
      [] file_path = "crates/bevy_ecs/examples/events.rs" ->
            [state |-> "file", content |-> "fn main() {}\n// Entity\n"]
      [] file_path = "examples/ecs/basic.rs" ->
            [state |-> "file", content |-> BigFile]
      [] file_path = "benches/spawn.rs" ->
            [state |-> "file", content |-> "let a = 1;\nlet b = 2;\nlet c = 3;"]
      [] file_path = "Tests/Locked.rs" ->
            [state |-> "unreadable", err |-> "[Errno 13] Permission denied"]
      [] file_path = "src/empty.rs" ->
            [state |-> "file", content |-> ""]
      [] file_path = "assets/notes.txt" ->
            [state |-> "file", content |-> Rep("lorem ipsum\n", 6)]
      [] OTHER -> [state |-> "missing"]

\* Path(BEVY_SOURCE_PATH) / file_path, as a string
FullPath(file_path) == BEVY_SOURCE_PATH \o "/" \o file_path

(***************************************************************************)
(* FILE FILTERING: is_relevant_file(file_path, query) -> (bool, reason)    *)
(***************************************************************************)
priority_paths == {"crates/bevy_ecs", "crates/bevy_app", "crates/bevy_core", "src/"}
example_paths == {"examples/", "benches/", "tests/"}
ecs_terms == {"entity", "component", "system", "query", "resource", "world", "commands"}
rendering_terms == {"render", "mesh", "material", "shader", "camera", "light"}

is_relevant_file(file_path, query) ==
    LET path_lower == Lower(file_path)
        query_lower == Lower(query)
        is_priority == \E p \in priority_paths : Contains(path_lower, p)
        is_example == \E p \in example_paths : Contains(path_lower, p)
        query_has_ecs == \E term \in ecs_terms : Contains(query_lower, term)
        query_has_rendering == \E term \in rendering_terms : Contains(query_lower, term)
    IN  IF is_priority /\ ~is_example THEN <<TRUE, "core API file">>
        ELSE IF is_example /\ (query_has_ecs \/ query_has_rendering)
             THEN <<TRUE, "example file (may contain usage patterns)">>
        ELSE IF is_example THEN <<FALSE, "example file (low priority for this query)">>
        ELSE <<TRUE, "potentially relevant">>

(***************************************************************************)
(* FILE READING WITH CONTEXT EXTRACTION                                    *)
(***************************************************************************)
\* the 0-based indices i, ascending, of the lines that contain a query term
RelevantLineIndices(lines, query_terms) ==
    Sorted({ i \in 0..(Len(lines) - 1) :
               \E k \in 1..Len(query_terms) : Contains(Lower(lines[i + 1]), query_terms[k]) })

\* the union of range(max(0, idx - 20), min(len(lines), idx + 20)) over the first 5 matches
ContextLines(lines, relevant_line_indices) ==
    UNION { (Max(0, relevant_line_indices[k] - CONTEXT_LINES))
              .. (Min(Len(lines), relevant_line_indices[k] + CONTEXT_LINES) - 1) :
            k \in 1..Min(MATCH_LIMIT, Len(relevant_line_indices)) }

\* the marker of the windowed path
WindowMarker == "\n\n... (truncated)"

\* the marker of the plain path, with the number of characters left out
PlainMarker(omitted) == "\n\n... (truncated, " \o IntToStr(omitted) \o " more characters)"

\* extracted_content[:max_chars] + marker, once the window is too long
TruncateWindow(extracted_content, max_chars) ==
    Take(extracted_content, max_chars) \o WindowMarker

\* content[:max_chars] + marker, for a file longer than max_chars
TruncatePlain(content, max_chars) ==
    Take(content, max_chars) \o PlainMarker(Len(content) - max_chars)

\* '\n'.join(lines[i] for i in sorted_lines)
ExtractLines(lines, sorted_lines) ==
    JoinNL([k \in 1..Len(sorted_lines) |-> lines[sorted_lines[k] + 1]])

\* "if len(extracted_content) < max_chars: return extracted_content, else truncate"
WindowResult(extracted_content, max_chars) ==
    IF Len(extracted_content) < max_chars
    THEN extracted_content
    ELSE TruncateWindow(extracted_content, max_chars)

\* "len(content) > max_chars"
ReachesBudget(content, max_chars) == Len(content) >= max_chars
ExceedsBudget(content, max_chars) == Len(content) > max_chars

\* the part of read_file_content after the scan for matching lines
Excerpt(content, lines, relevant_line_indices, max_chars) ==
    IF Len(relevant_line_indices) > 0 /\ ExceedsBudget(content, max_chars)
    THEN WindowResult(
             ExtractLines(lines, Sorted(ContextLines(lines, relevant_line_indices))),
             max_chars)
    ELSE IF ExceedsBudget(content, max_chars)
         THEN TruncatePlain(content, max_chars)
         ELSE content

\* the part of read_file_content after f.read()
ExcerptOf(content, lines, query_terms, max_chars) ==
    Excerpt(content, lines, RelevantLineIndices(lines, query_terms), max_chars)

FileNotFound(file_path) == "*File not found at " \o FullPath(file_path) \o "*"

ErrorReading(err) == "*Error reading file: " \o err \o "*"

ReadEntry(f, file_path, query, max_chars) ==
    IF f.state = "missing" THEN FileNotFound(file_path)
    ELSE IF f.state = "unreadable" THEN ErrorReading(f.err)
    ELSE ExcerptOf(f.content, SplitNL(f.content), SplitWS(Lower(query)), max_chars)

read_file_content(file_path, query, max_chars) ==
    ReadEntry(FS(file_path), file_path, query, max_chars)

(***************************************************************************)
(* JSON values, as json.loads builds them: tagged tuples, so that values   *)
(* of different Python types compare unequal.                              *)
(***************************************************************************)
JStr(s) == <<"str", s>>
JInt(n) == <<"int", n>>
JNull == <<"null">>
JList == <<"list">>
JDict(d) == <<"dict", d>>
EmptyDict == <<"dict", [k \in {} |-> JNull]>>

IsDict(v) == v[1] = "dict"
IsStr(v) == v[1] = "str"
IsInt(v) == v[1] = "int"

\* d.get(key, default) for a dict d
Get(d, key, default) == IF key \in DOMAIN d[2] THEN d[2][key] ELSE default

\* bool(v)
Truthy(v) ==
    CASE v[1] = "null" -> FALSE
      [] v[1] = "str" -> v[2] # ""
      [] v[1] = "int" -> v[2] # 0
      [] v[1] = "dict" -> DOMAIN v[2] # {}
      [] OTHER -> TRUE

\* str(v) inside an f-string
Show(v) ==
    CASE v[1] = "null" -> "None"
      [] v[1] = "str" -> v[2]
      [] v[1] = "int" -> IntToStr(v[2])
      [] OTHER -> "[...]"

(***************************************************************************)
(* Outcomes of a call: a returned value, or a raised exception.            *)
(***************************************************************************)
Return(v) == [ok |-> TRUE, value |-> v]
Raise(type, msg) == [ok |-> FALSE, exc |-> [type |-> type, msg |-> msg]]

\* what the backends can raise, by the classes the handlers tell apart
AttrErr == Raise("AttributeError", "'QdrantClient' object has no attribute")
IsAttributeError(o) == ~o.ok /\ o.exc.type = "AttributeError"
JsonErr == Raise("JSONDecodeError", "Expecting value: line 1 column 1 (char 0)")
ConnErr == Raise("ConnectionError", "Connection refused")

(***************************************************************************)
(* EMBEDDING and the vector store.  A backend is what the two clients do   *)
(* during one request: embed and each call shape either return (the call   *)
(* shape, the candidate list) or raise.                                    *)
(***************************************************************************)
embed(text, backend) ==
    IF backend.embed.ok THEN Return("vector") ELSE backend.embed

\* one attempt of a call shape, with the arguments it passes
ShapeCall(shape, vector, search_limit) ==
    [shape |-> shape, collection_name |-> COLLECTION, vector |-> vector, limit |-> search_limit]

\* the three call shapes, tried in order; the next one only after AttributeError.
\* The code never checks the answer against search_limit: the candidate list is
\* whatever the store returns.
VectorSearch(vector, search_limit, backend) ==
    IF ~IsAttributeError(backend.query_points)
    THEN [shapes |-> <<ShapeCall("query_points", vector, search_limit)>>,
          outcome |-> backend.query_points]
    ELSE IF ~IsAttributeError(backend.search)
         THEN [shapes |-> <<ShapeCall("query_points", vector, search_limit),
                            ShapeCall("search", vector, search_limit)>>,
               outcome |-> backend.search]
         ELSE [shapes |-> <<ShapeCall("query_points", vector, search_limit),
                            ShapeCall("search", vector, search_limit),
                            ShapeCall("search_points", vector, search_limit)>>,
               outcome |-> backend.search_points]

(***************************************************************************)
(* QUERY FUNCTION WITH FILTERING                                           *)
(***************************************************************************)
\* search_limit = top_k * 3
SearchLimit(top_k) == top_k * 3

\* "if score < MIN_RELEVANCE_SCORE: continue"
NoFilterBelow(score) == FALSE
BelowThreshold(score) == score < MIN_RELEVANCE_SCORE

\* "if len(formatted_results) >= top_k: break"
EnoughResults(n, top_k) == n >= top_k

\* r.payload.get("path", "Unknown")
CandidatePath(r) == IF "path" \in DOMAIN r.payload THEN r.payload.path ELSE "Unknown"

ResultData(file_path, score, text, reason) ==
    [path |-> file_path,
     score |-> score,
     content |-> read_file_content(file_path, text, DEFAULT_MAX_CHARS),
     relevance_reason |-> reason]

\* "if is_relevant: ... append", given the verdict of is_relevant_file
SkipUnreadable(verdict, r, text) ==
    IF verdict[1] /\ FS(CandidatePath(r)).state = "file"
    THEN <<ResultData(CandidatePath(r), r.score, text, verdict[2])>>
    ELSE <<>>
AcceptedBy(verdict, r, text) ==
    IF verdict[1] THEN <<ResultData(CandidatePath(r), r.score, text, verdict[2])>> ELSE <<>>

\* what the loop body appends for candidate r: one result, or nothing
Accepted(r, text) ==
    IF BelowThreshold(r.score) THEN <<>>
    ELSE AcceptedBy(is_relevant_file(CandidatePath(r), text), r, text)

\* the loop over the candidates, from candidate i on, with the results so far;
\* processed counts the candidates the loop has looked at
RECURSIVE FilterFrom(_, _, _, _, _)

\* the end of the loop body for candidate i: break once top_k results are in
FilterStep(results, i, text, top_k, formatted_results, new) ==
    IF Len(new) = 1 /\ EnoughResults(Len(formatted_results) + 1, top_k)
    THEN [formatted_results |-> formatted_results \o new, processed |-> i]
    ELSE FilterFrom(results, i + 1, text, top_k, formatted_results \o new)

FilterFrom(results, i, text, top_k, formatted_results) ==
    IF i > Len(results)
    THEN [formatted_results |-> formatted_results, processed |-> Len(results)]
    ELSE FilterStep(results, i, text, top_k, formatted_results, Accepted(results[i], text))

\* what a call of query_qdrant did on the way to its outcome
Did(top_k, shapes, candidates, processed) ==
    [top_k |-> top_k, search_limit |-> SearchLimit(top_k), shapes |-> shapes,
     candidates |-> candidates, processed |-> processed]

Collected(filtered, searched, top_k) ==
    [outcome |-> Return(filtered.formatted_results),
     did |-> Did(top_k, searched.shapes, searched.outcome.value, filtered.processed)]

AfterSearch(searched, text, top_k) ==
    IF ~searched.outcome.ok
    THEN [outcome |-> searched.outcome, did |-> Did(top_k, searched.shapes, <<>>, 0)]
    ELSE Collected(FilterFrom(searched.outcome.value, 1, text, top_k, <<>>), searched, top_k)

AfterEmbed(vector, text, top_k, backend) ==
    IF ~vector.ok
    THEN [outcome |-> vector, did |-> Did(top_k, <<>>, <<>>, 0)]
    ELSE AfterSearch(VectorSearch(vector.value, SearchLimit(top_k), backend), text, top_k)

\* query_qdrant(text, top_k): the outcome, with what the call did on the way
query_qdrant(text, top_k, backend) ==
    AfterEmbed(embed(text, backend), text, top_k, backend)

(***************************************************************************)
(* MCP REQUEST HANDLERS                                                    *)
(***************************************************************************)
handle_initialize(request) ==
    Return([protocolVersion |-> "2024-11-05",
            capabilities |-> [tools |-> EmptyDict],
            serverInfo |-> [name |-> "query-qdrant", version |-> "1.0.0"]])

ToolDescriptor ==
    [name |-> "query_qdrant",
     description |-> "Search the Bevy 0.14.2 source code using semantic search with intelligent filtering.",
     inputSchema |->
        [type |-> "object",
         properties |->
            [query |-> [type |-> "string",
                        description |-> "Semantic search query using specific Bevy terms"],
             top_k |-> [type |-> "number",
                        description |-> "Number of results to return (default: 5)",
                        default |-> 5]],
         required |-> <<"query">>]]

NoTools(request) == Return([tools |-> <<>>])
handle_list_tools(request) == Return([tools |-> <<ToolDescriptor>>])

NoResultsText ==
    "No relevant results found. Try:\n- Using more specific Bevy terminology\n- Rephrasing your query\n- Searching for related concepts"

\* one text block per result: the parts the f-strings put together, in order
\* (the literal text between the parts is left out)
ResultBlock(i, result) ==
    [type |-> "text",
     text |-> [number |-> i,
               relevance |-> result.score,
               reason |-> result.relevance_reason,
               file |-> result.path,
               content |-> result.content]]

\* arguments.get("top_k", 5)
DEFAULT_TOP_K == 5

NotCalled == [called |-> FALSE, results |-> <<>>]

\* the content list for the results of query_qdrant
BlocksWithoutAdvice(results) == [i \in 1..Len(results) |-> ResultBlock(i, results[i])]
ContentBlocks(results) ==
    IF Len(results) = 0
    THEN <<[type |-> "text", text |-> [advice |-> NoResultsText]]>>
    ELSE [i \in 1..Len(results) |-> ResultBlock(i, results[i])]

\* the rest of handle_call_tool once query_qdrant has returned or raised
AfterQuery(q) ==
    IF ~q.outcome.ok
    THEN [outcome |-> q.outcome, did |-> [called |-> TRUE, results |-> <<>>] @@ q.did]
    ELSE [outcome |-> Return([content |-> ContentBlocks(q.outcome.value)]),
          did |-> [called |-> TRUE, results |-> q.outcome.value] @@ q.did]

CallQuery(query_text, top_k, backend) ==
    IF ~IsStr(query_text) \/ ~IsInt(top_k)
    THEN [outcome |-> Raise("TypeError", "unsupported operand type(s)"), did |-> NotCalled]
    ELSE AfterQuery(query_qdrant(query_text[2], top_k[2], backend))

CallNamed(tool_name, arguments, backend) ==
    IF tool_name # JStr("query_qdrant")
    THEN [outcome |-> Raise("ValueError", "Unknown tool: " \o Show(tool_name)),
          did |-> NotCalled]
    ELSE IF ~IsDict(arguments)
    THEN [outcome |-> Raise("AttributeError", "object has no attribute 'get'"),
          did |-> NotCalled]
    ELSE CallQuery(Get(arguments, "query", JStr("")),
                   Get(arguments, "top_k", JInt(DEFAULT_TOP_K)), backend)

CallWith(params, backend) ==
    IF ~IsDict(params)
    THEN [outcome |-> Raise("AttributeError", "object has no attribute 'get'"),
          did |-> NotCalled]
    ELSE CallNamed(Get(params, "name", JNull), Get(params, "arguments", EmptyDict), backend)

\* handle_call_tool(request): the outcome, and under did what query_qdrant did
handle_call_tool(request, backend) ==
    CallWith(Get(request, "params", EmptyDict), backend)

(***************************************************************************)
(* MCP LOOP                                                                *)
(*                                                                         *)
(* A line of standard input is what json.loads makes of it: a JSONDecode-  *)
(* Error (json = FALSE) or the decoded value.                              *)
(***************************************************************************)
BadLine == [json |-> FALSE, text |-> "{not json"]
Line(value) == [json |-> TRUE, value |-> value]

json_loads(line) == IF line.json THEN Return(line.value) ELSE JsonErr

\* "req_id = 1" at the top of every iteration
StaleReqId(previous) == previous
FreshReqId(previous) == JInt(1)

\* "if method and method.startswith('notifications/')", for a str method
NeverNotification(method) == FALSE
NotificationPrefix == "notifications/"
IsNotification(method) == Truthy(method) /\ StartsWith(method[2], NotificationPrefix)

\* the if/elif chain over the method
Dispatch(request, method, backend) ==
    IF method = JStr("initialize") THEN handle_initialize(request)
    ELSE IF method = JStr("tools/list") THEN handle_list_tools(request)
    ELSE IF method = JStr("tools/call") THEN handle_call_tool(request, backend).outcome
    ELSE Raise("ValueError", "Unknown method: " \o Show(method))

\* how the try block ends for one line: the req_id it leaves, and "continue",
\* a result to respond with, or a raised exception
Ended(id, outcome) ==
    [req_id |-> id, ctl |-> IF outcome.ok THEN "respond" ELSE "raise", outcome |-> outcome]

\* the try block from "req_id = request.get('id', 1)" on, for a dict
Handle(request, id, method, backend) ==
    IF Truthy(method) /\ ~IsStr(method)
    THEN Ended(id, Raise("AttributeError", "object has no attribute 'startswith'"))
    ELSE IF IsNotification(method)
    THEN [req_id |-> id, ctl |-> "continue", outcome |-> Return(JNull)]
    ELSE Ended(id, Dispatch(request, method, backend))

\* the try block after json.loads
Parsed(parsed, backend, req_id0) ==
    IF ~parsed.ok THEN Ended(req_id0, parsed)
    ELSE IF ~IsDict(parsed.value)
    THEN Ended(req_id0, Raise("AttributeError", "object has no attribute 'get'"))
    ELSE Handle(parsed.value, Get(parsed.value, "id", JInt(1)),
                Get(parsed.value, "method", JNull), backend)

TryBlock(line, backend, req_id0) == Parsed(json_loads(line), backend, req_id0)

\* "except json.JSONDecodeError": the first handler of the try statement
CaughtAsDecodeError(exc) == exc.type = "JSONDecodeError"

SuccessResponse(id, result) == [jsonrpc |-> "2.0", id |-> id, result |-> result]

ErrorResponse(id, exc) ==
    [jsonrpc |-> "2.0", id |-> id, error |-> [code |-> -32000, message |-> exc.msg]]

\* print(response_json, flush=True): the line goes to the end of standard output
EmitFirst(out, printed) == printed \o out
Emit(out, printed) == out \o printed

\* where the loop is after the try statement: every handler ends the iteration
\* and "while True" starts the next one
ExitOnError(body) == IF body.ctl = "raise" THEN "Closed" ELSE "AwaitingLine"
AfterIteration(body) == "AwaitingLine"

\* the lines one iteration prints
Printed(body) ==
    IF body.ctl = "continue" THEN <<>>
    ELSE IF body.ctl = "respond" THEN <<SuccessResponse(body.req_id, body.outcome.value)>>
    ELSE IF CaughtAsDecodeError(body.outcome.exc) THEN <<>>
    ELSE <<ErrorResponse(body.req_id, body.outcome.exc)>>

(***************************************************************************)
(* The inputs the model draws from                                         *)
(***************************************************************************)
\* the longest input the loop is run on
MaxLines == 2

\* the longest candidate list the vector store returns
MaxCands == 3

Candidate(path, score) == [payload |-> [path |-> path], score |-> score]

Candidates ==
    { Candidate("crates/bevy_ecs/src/system/query.rs", 90),
      Candidate("Tests/Locked.rs", 80),
      Candidate("examples/ecs/basic.rs", 70),
      [payload |-> [chunk |-> "7"], score |-> 60],
      Candidate("docs/guide.md", 50),
      Candidate("src/empty.rs", 30) }

\* the vector store returns its candidates by descending score
Descending(points) ==
    \A i \in 1..(Len(points) - 1) : points[i].score >= points[i + 1].score

CandidateLists ==
    UNION { { points \in [1..n -> Candidates] : Descending(points) } : n \in 0..MaxCands }

SomePoints ==
    << Candidate("crates/bevy_ecs/src/system/query.rs", 90),
       Candidate("examples/ecs/basic.rs", 70),
       Candidate("src/empty.rs", 30) >>

Backend(e, qp, s, sp) == [embed |-> e, query_points |-> qp, search |-> s, search_points |-> sp]

\* a backend whose first call shape works
GoodBackend(points) ==
    Backend(Return("vector"), Return(points), Return(points), Return(points))

ShapeOutcomes == {Return(SomePoints), AttrErr, JsonErr, ConnErr}

\* every working backend, and every way the calls can fail
CallBackends ==
    { GoodBackend(points) : points \in CandidateLists }
    \cup { Backend(e, qp, s, sp) : e \in {Return("vector"), ConnErr},
                                   qp \in ShapeOutcomes, s \in ShapeOutcomes,
                                   sp \in ShapeOutcomes }

CallArguments ==
    { JDict([query |-> JStr(q)]) : q \in {"spawn entity", "random unrelated text"} }
    \cup { JDict([query |-> JStr(q), top_k |-> JInt(k)]) :
             q \in {"spawn entity", "random unrelated text"}, k \in {0, 1, 2, 3} }
    \cup { JDict([top_k |-> JInt(1)]), JDict([query |-> JStr("world"), top_k |-> JNull]) }

ToolCall(id, name, arguments) ==
    JDict([id |-> id, method |-> JStr("tools/call"),
           params |-> JDict([name |-> name, arguments |-> arguments])])

CallRequests ==
    { ToolCall(JInt(4), JStr("query_qdrant"), a) : a \in CallArguments }
    \cup { ToolCall(JInt(2), JStr("other_tool"), JDict([query |-> JStr("spawn entity")])),
           JDict([id |-> JInt(2), method |-> JStr("tools/call")]),
           JDict([id |-> JInt(2), method |-> JStr("tools/call"), params |-> JList]),
           ToolCall(JInt(2), JStr("query_qdrant"), JList) }

\* the lines the loop is fed
CallLines ==
    { Line(ToolCall(JInt(4), JStr("query_qdrant"),
                    JDict([query |-> JStr("spawn entity"), top_k |-> JInt(1)]))),
      Line(ToolCall(JStr("b"), JStr("query_qdrant"),
                    JDict([query |-> JStr("random unrelated text")]))) }

PlainLines ==
    { BadLine,
      Line(JList),
      Line(JDict([id |-> JInt(7), method |-> JStr("initialize")])),
      Line(JDict([method |-> JStr("tools/list")])),
      Line(JDict([id |-> JStr("a"), method |-> JStr("tools/list")])),
      Line(JDict([method |-> JStr("notifications/initialized")])),
      Line(JDict([id |-> JInt(9), method |-> JStr("notifications/cancelled"),
                  params |-> JDict([requestId |-> JInt(7)])])),
      Line(JDict([id |-> JInt(8), method |-> JStr("foo")])),
      Line(JDict([id |-> JInt(6), method |-> JStr("notifications")])),
      Line(JDict([id |-> JNull])),
      Line(JDict([id |-> JInt(3), method |-> JInt(5)])),
      Line(ToolCall(JInt(2), JStr("other_tool"), EmptyDict)) }

LoopLines == PlainLines \cup CallLines

\* what the backends do while the loop serves one line
LoopBackends ==
    { GoodBackend(SomePoints),
      Backend(ConnErr, Return(SomePoints), Return(SomePoints), Return(SomePoints)),
      Backend(Return("vector"), JsonErr, Return(SomePoints), Return(SomePoints)),
      Backend(Return("vector"), AttrErr, AttrErr, AttrErr),
      Backend(Return("vector"), AttrErr, Return(<<>>), ConnErr) }

\* the backends are reached only from a tools/call line
BackendsFor(line) == IF line \in CallLines THEN LoopBackends ELSE {GoodBackend(SomePoints)}

ReadQueries == {"spawn entity", "random unrelated text", "", "WORLD  lorem"}

MaxCharsSet == {10, 24, 32, 33, 60, 300, DEFAULT_MAX_CHARS}

(***************************************************************************)
(* The loop: one action per iteration of "while True"                      *)
(***************************************************************************)
LoopInit ==
    /\ pc = "AwaitingLine"
    /\ eof = FALSE
    /\ req_id = JInt(1)
    /\ stdin_read = <<>>
    /\ stdout = <<>>
    /\ cause = <<>>
    /\ config = Config

CallIdle ==
    /\ call_pc = "unused"
    /\ call_request = EmptyDict
    /\ call_backend = GoodBackend(<<>>)
    /\ call_out = [outcome |-> Return(JNull), did |-> NotCalled]

ReadIdle ==
    /\ rf_pc = "unused"
    /\ rf_path = ""
    /\ rf_query = ""
    /\ rf_max = 0
    /\ rf_out = ""

ClassifyIdle ==
    /\ cl_pc = "unused"
    /\ cl_path = ""
    /\ cl_query = ""
    /\ cl_out = <<TRUE, "">>
    /\ cl_again = <<TRUE, "">>

FilterIdle ==
    /\ fl_pc = "unused"
    /\ fl_lines = <<>>
    /\ fl_out = <<>>

Init == LoopInit /\ CallIdle /\ ReadIdle /\ ClassifyIdle /\ FilterIdle

\* readline() returns a line: the whole iteration, up to the print
HandleLine ==
    /\ pc = "AwaitingLine"
    /\ Len(stdin_read) < MaxLines
    /\ \E line \in LoopLines :
         \E backend \in BackendsFor(line) :
            \E body \in {TryBlock(line, backend, FreshReqId(req_id))} :
               \E printed \in {Printed(body)} :
                  /\ req_id' = body.req_id
                  /\ stdin_read' = Append(stdin_read, [line |-> line, backend |-> backend])
                  /\ stdout' = Emit(stdout, printed)
                  /\ cause' = Emit(cause, [k \in 1..Len(printed) |-> Len(stdin_read) + 1])
                  /\ pc' = AfterIteration(body)
    /\ UNCHANGED <<eof, config, call_vars, rf_vars, cl_vars, fl_vars>>

\* readline() returns '': "EOF received, exiting"
ReadEOF ==
    /\ pc = "AwaitingLine"
    /\ eof' = TRUE
    /\ pc' = "Closed"
    /\ req_id' = FreshReqId(req_id)
    /\ UNCHANGED <<stdin_read, stdout, cause, config, call_vars, rf_vars, cl_vars, fl_vars>>

Next == HandleLine \/ ReadEOF

Spec == Init /\ [][Next]_vars

\* the loop is the only thread: it takes its next step whenever it has one
FairSpec == Spec /\ WF_vars(Next)

(***************************************************************************)
(* One call of handle_call_tool, on any request and any backend            *)
(***************************************************************************)
InitCall ==
    /\ LoopInit
    /\ ReadIdle
    /\ ClassifyIdle
    /\ FilterIdle
    /\ call_pc = "ready"
    /\ call_request \in CallRequests
    /\ call_backend \in CallBackends
    /\ call_out = [outcome |-> Return(JNull), did |-> NotCalled]

CallTool ==
    /\ call_pc = "ready"
    /\ call_out' = handle_call_tool(call_request, call_backend)
    /\ call_pc' = "done"
    /\ UNCHANGED <<call_request, call_backend, loop_vars, rf_vars, cl_vars, fl_vars>>

NextCall == CallTool

SpecCall == InitCall /\ [][NextCall]_vars

(***************************************************************************)
(* One call of read_file_content, on any file, query and max_chars         *)
(***************************************************************************)
InitRead ==
    /\ LoopInit
    /\ CallIdle
    /\ ClassifyIdle
    /\ FilterIdle
    /\ rf_pc = "ready"
    /\ rf_path \in FilePaths
    /\ rf_query \in ReadQueries
    /\ rf_max \in MaxCharsSet
    /\ rf_out = ""

ReadFile ==
    /\ rf_pc = "ready"
    /\ rf_out' = read_file_content(rf_path, rf_query, rf_max)
    /\ rf_pc' = "done"
    /\ UNCHANGED <<rf_path, rf_query, rf_max, loop_vars, call_vars, cl_vars, fl_vars>>

NextRead == ReadFile

SpecRead == InitRead /\ [][NextRead]_vars

(***************************************************************************)
(* Two calls of is_relevant_file with the same path and query              *)
(***************************************************************************)
ClassifyPaths ==
    { "crates/bevy_ecs/src/system/query.rs",
      "Crates/Bevy_App/SRC/app.rs",
      "crates/bevy_ecs/examples/events.rs",
      "examples/render/shadows.rs",
      "Tests/Locked.rs",
      "benches/spawn.rs",
      "crates/bevy_render/my_tests/x.rs",
      "docs/guide.md",
      "Unknown",
      "" }

ClassifyQueries ==
    { "entity component",
      "spawn entity",
      "random unrelated text",
      "",
      "SHADER cache",
      "highlighting",
      "Requery all",
      "rend er" }

InitClassify ==
    /\ LoopInit
    /\ CallIdle
    /\ ReadIdle
    /\ FilterIdle
    /\ cl_pc = "ready"
    /\ cl_path \in ClassifyPaths
    /\ cl_query \in ClassifyQueries
    /\ cl_out = <<TRUE, "">>
    /\ cl_again = <<TRUE, "">>

Classify ==
    /\ cl_pc = "ready"
    /\ cl_out' = is_relevant_file(cl_path, cl_query)
    /\ cl_pc' = "once"
    /\ UNCHANGED <<cl_path, cl_query, cl_again, loop_vars, call_vars, rf_vars, fl_vars>>

ClassifyAgain ==
    /\ cl_pc = "once"
    /\ cl_again' = is_relevant_file(cl_path, cl_query)
    /\ cl_pc' = "twice"
    /\ UNCHANGED <<cl_path, cl_query, cl_out, loop_vars, call_vars, rf_vars, fl_vars>>

NextClassify == Classify \/ ClassifyAgain

SpecClassify == InitClassify /\ [][NextClassify]_vars

(***************************************************************************)
(* filter_logs.py: filter_log(input_file, output_file), on the lines that  *)
(* readlines() returns; fl_out is the list handed to writelines().         *)
(***************************************************************************)
\* the escape character 0x1b, written as a character no log line uses
ESC == "~"

\* \d
DigitChars == {"0", "1", "2", "3", "4", "5", "6", "7", "8", "9"}

\* [0-9;]
ParamChars == DigitChars \cup {";"}

\* \s
SpaceChars == {" ", "\t", "\n", "\r"}

\* the first index from i on whose character is not in chars, or Len(s) + 1
RunEnd(s, i, chars) ==
    CHOOSE j \in i..(Len(s) + 1) :
        /\ \A k \in i..(j - 1) : CharAt(s, k) \in chars
        /\ j = Len(s) + 1 \/ CharAt(s, j) \notin chars

\* the length of the match of \x1b\[[0-9;]*[mK] at the start of s, or 0
AnsiLength(s) ==
    IF /\ Len(s) >= 3
       /\ CharAt(s, 1) = ESC
       /\ CharAt(s, 2) = "["
       /\ RunEnd(s, 3, ParamChars) <= Len(s)
       /\ CharAt(s, RunEnd(s, 3, ParamChars)) \in {"m", "K"}
    THEN RunEnd(s, 3, ParamChars)
    ELSE 0

\* re.sub(r'\x1b\[[0-9;]*[mK]', '', line)
RECURSIVE RemoveAnsi(_)
RemoveAnsi(s) ==
    IF s = "" THEN ""
    ELSE IF AnsiLength(s) > 0 THEN RemoveAnsi(Drop(s, AnsiLength(s)))
    ELSE CharAt(s, 1) \o RemoveAnsi(Drop(s, 1))

\* not line.strip()
IsBlank(line) == \A i \in 1..Len(line) : IsSpace(CharAt(line, i))

\* the end of \s+DEBUG\s+ when the whitespace before DEBUG starts at index w
DebugFrom(s, w) ==
    /\ RunEnd(s, w, SpaceChars) > w
    /\ Len(s) >= RunEnd(s, w, SpaceChars) + 5
    /\ SubSeq(s, RunEnd(s, w, SpaceChars), RunEnd(s, w, SpaceChars) + 4) = "DEBUG"
    /\ IsSpace(CharAt(s, RunEnd(s, w, SpaceChars) + 5))

\* re.match(r'\d{4}-\d{2}-\d{2}T\d{2}:\d{2}:\d{2}\.\d+Z\s+DEBUG\s+', line)
IsDebugLine(s) ==
    /\ Len(s) >= 21
    /\ \A i \in {1, 2, 3, 4, 6, 7, 9, 10, 12, 13, 15, 16, 18, 19} : CharAt(s, i) \in DigitChars
    /\ CharAt(s, 5) = "-" /\ CharAt(s, 8) = "-" /\ CharAt(s, 11) = "T"
    /\ CharAt(s, 14) = ":" /\ CharAt(s, 17) = ":" /\ CharAt(s, 20) = "."
    /\ RunEnd(s, 21, DigitChars) > 21
    /\ RunEnd(s, 21, DigitChars) <= Len(s)
    /\ CharAt(s, RunEnd(s, 21, DigitChars)) = "Z"
    /\ DebugFrom(s, RunEnd(s, 21, DigitChars) + 1)

prefix == "rose_offline_client:"

\* s.rfind(sub): the 0-based index of the last occurrence, or -1
RFind(s, sub) ==
    IF ~Contains(s, sub) THEN -1
    ELSE CHOOSE i \in 0..(Len(s) - Len(sub)) :
            /\ SubSeq(s, i + 1, i + Len(sub)) = sub
            /\ \A j \in (i + 1)..(Len(s) - Len(sub)) : SubSeq(s, j + 1, j + Len(sub)) # sub

\* content.lstrip(': \t')
LStripColons(content) == Drop(content, RunEnd(content, 1, {":", " ", "\t"}) - 1)

\* "if not content: continue", else "filtered_lines.append(content + '\n')"
AppendContent(content) == IF content = "" THEN <<>> ELSE <<content \o "\n">>

\* the loop body after the ANSI removal: what the line adds to filtered_lines
FilterClean(line) ==
    IF IsBlank(line) THEN <<>>
    ELSE IF IsDebugLine(line) THEN <<>>
    ELSE IF RFind(line, prefix) # -1
         THEN AppendContent(LStripColons(Drop(line, RFind(line, prefix) + Len(prefix))))
         ELSE <<line>>

\* the loop over the lines: filtered_lines
RECURSIVE filter_log(_)
filter_log(lines) ==
    IF lines = <<>> THEN <<>>
    ELSE FilterClean(RemoveAnsi(Head(lines))) \o filter_log(Tail(lines))

\* the longest input file, in lines
MaxLogLines == 2

\* lines as readlines() returns them: each ends with its line terminator
TerminatedLines ==
    { "rose_offline_client: [INFO] started\n",
      "2026-02-02T04:27:07.407063Z  INFO rose_offline_client: ~[32mzone loaded~[0m\n",
      "2026-02-02T04:27:07.407063Z DEBUG naga::front: x\n",
      "2026-02-02T04:27:07.407063Z DEBUG rose_offline_client: tick\n",
      "\n",
      "~[0m  \t\n",
      "rose_offline_client: :\t \n",
      "a rose_offline_client: b rose_offline_client:   - item\n",
      "plain line\n" }

\* only the last line of a file can lack the terminator
UnterminatedLines ==
    { "rose_offline_client: end", "rose_offline_client:  ", "tail" }

LogFiles ==
    {<<>>}
    \cup UNION { { Append(body, last) :
                     body \in [1..n -> TerminatedLines],
                     last \in TerminatedLines \cup UnterminatedLines } :
                  n \in 0..(MaxLogLines - 1) }

InitFilter ==
    /\ LoopInit
    /\ CallIdle
    /\ ReadIdle
    /\ ClassifyIdle
    /\ fl_pc = "ready"
    /\ fl_lines \in LogFiles
    /\ fl_out = <<>>

FilterLog ==
    /\ fl_pc = "ready"
    /\ fl_out' = filter_log(fl_lines)
    /\ fl_pc' = "done"
    /\ UNCHANGED <<fl_lines, loop_vars, call_vars, rf_vars, cl_vars>>

NextFilter == FilterLog

SpecFilter == InitFilter /\ [][NextFilter]_vars

(***************************************************************************)
(* What the properties speak of                                            *)
(***************************************************************************)
LineAt(i) == stdin_read[i].line
BackendAt(i) == stdin_read[i].backend

\* the indices in stdout of the lines that input line i caused
OutputsOf(i) == {k \in 1..Len(stdout) : cause[k] = i}

IsRequest(line) == line.json /\ IsDict(line.value)
MethodOf(line) == Get(line.value, "method", JNull)

\* a request whose method is a string beginning with "notifications/"
IsNotificationLine(line) ==
    /\ IsRequest(line)
    /\ IsStr(MethodOf(line))
    /\ Len(MethodOf(line)[2]) >= 14
    /\ SubSeq(MethodOf(line)[2], 1, 14) = "notifications/"

\* a line that parses as JSON and is no notification
Answerable(line) == line.json /\ ~IsNotificationLine(line)

\* the id a response to the line has to carry
ExpectedId(line) ==
    IF IsRequest(line) /\ "id" \in DOMAIN line.value[2] THEN line.value[2]["id"] ELSE JInt(1)

\* a JSON-RPC 2.0 object with exactly one of result and error
WellFormed(response) ==
    /\ {"jsonrpc", "id"} \subseteq DOMAIN response
    /\ response.jsonrpc = "2.0"
    /\ ("result" \in DOMAIN response) # ("error" \in DOMAIN response)

IsErrorResponse(response) ==
    /\ WellFormed(response)
    /\ "error" \in DOMAIN response
    /\ response.error.code = -32000
    /\ DOMAIN response.error = {"code", "message"}

IsToolsList(line) == IsRequest(line) /\ MethodOf(line) = JStr("tools/list")

\* the backend raises during query_qdrant
BackendRaises(backend) ==
    \/ ~backend.embed.ok
    \/ ~backend.query_points.ok /\ backend.query_points.exc.type # "AttributeError"
    \/ /\ ~backend.query_points.ok /\ backend.query_points.exc.type = "AttributeError"
       /\ ~backend.search.ok /\ backend.search.exc.type # "AttributeError"
    \/ /\ ~backend.query_points.ok /\ backend.query_points.exc.type = "AttributeError"
       /\ ~backend.search.ok /\ backend.search.exc.type = "AttributeError"
       /\ ~backend.search_points.ok

\* a finished call of handle_call_tool that ran query_qdrant to its return
Searched == call_pc = "done" /\ call_out.did.called /\ call_out.outcome.ok

\* the candidates the filters of query_qdrant let through
Eligible(candidates, text) ==
    {i \in 1..Len(candidates) :
        /\ candidates[i].score >= MIN_RELEVANCE_SCORE
        /\ is_relevant_file(CandidatePath(candidates[i]), text)[1]}

CallQueryText == Get(Get(Get(call_request, "params", EmptyDict), "arguments", EmptyDict),
                     "query", JStr(""))[2]

(***************************************************************************)
(* C1: for every call of query_qdrant reached through tools/call, with     *)
(* top_k forwarded as given, and for every candidate list, the number of   *)
(* results returned is at most the requested top_k.                        *)
(***************************************************************************)
C1_AtMostTopK ==
    Searched => Len(call_out.did.results) <= call_out.did.top_k

(***************************************************************************)
(* C2: every input line that parses as JSON and is no notification gets    *)
(* exactly one output line, written in the iteration that read it, and     *)
(* that line is a JSON-RPC 2.0 object with exactly one of result, error.   *)
(***************************************************************************)
C2_OneResponsePerRequest ==
    \A i \in 1..Len(stdin_read) :
        Answerable(LineAt(i)) =>
            /\ Cardinality(OutputsOf(i)) = 1
            /\ \A k \in OutputsOf(i) : WellFormed(stdout[k])

(***************************************************************************)
(* C3: every output line carries the id of the input line that caused it:  *)
(* the request's own id when it has one, the fallback 1 otherwise; so no   *)
(* response carries the id left over from an earlier request.              *)
(***************************************************************************)
C3_IdEchoed ==
    \A k \in 1..Len(stdout) :
        /\ cause[k] \in 1..Len(stdin_read)
        /\ stdout[k].id = ExpectedId(LineAt(cause[k]))

\* an error for a line that is no dict, read after a request with another id
C3_Witness ==
    /\ Len(stdin_read) = 2 /\ Len(stdout) = 2
    /\ ExpectedId(LineAt(1)) = JStr("a")
    /\ stdout[1].id = JStr("a")
    /\ LineAt(2) = Line(JList)
    /\ "error" \in DOMAIN stdout[2]
    /\ stdout[2].id = JInt(1)

(***************************************************************************)
(* C4: a returned excerpt that is no diagnostic string is at most          *)
(* max_chars long, unless the whole file is shorter than max_chars, and    *)
(* then it is the whole file; the truncation markers included.             *)
(***************************************************************************)
C4_ExcerptWithinBudget ==
    (rf_pc = "done" /\ FS(rf_path).state = "file") =>
        \/ Len(rf_out) <= rf_max
        \/ Len(FS(rf_path).content) < rf_max /\ rf_out = FS(rf_path).content

C6_OutputsAreTheResponses ==
    /\ \A i \in 1..Len(stdin_read) :
          Cardinality(OutputsOf(i)) = (IF Answerable(LineAt(i)) THEN 1 ELSE 0)
    /\ ((\E i \in 1..Len(stdin_read) : ~LineAt(i).json) /\ ~eof) => pc = "AwaitingLine"
    /\ (Len(stdin_read) = 2 /\ ~LineAt(1).json /\ IsToolsList(LineAt(2))) =>
          stdout = <<SuccessResponse(ExpectedId(LineAt(2)), [tools |-> <<ToolDescriptor>>])>>

\* the part of C6 about the unparsable line itself: it has no output line, the
\* loop goes on, and a tools/list behind it is answered alone
UnparsableLineIsSilent ==
    /\ \A i \in 1..Len(stdin_read) : ~LineAt(i).json => OutputsOf(i) = {}
    /\ ((\E i \in 1..Len(stdin_read) : ~LineAt(i).json) /\ ~eof) => pc = "AwaitingLine"
    /\ (Len(stdin_read) = 2 /\ ~LineAt(1).json /\ IsToolsList(LineAt(2))) =>
          stdout = <<SuccessResponse(ExpectedId(LineAt(2)), [tools |-> <<ToolDescriptor>>])>>

(***************************************************************************)
(* C7: a request whose method is a string beginning with "notifications/"  *)
(* produces no output line, with or without an id and whatever its params, *)
(* and the loop goes on to read the next line.                             *)
(***************************************************************************)
C7_NotificationsAreSilent ==
    /\ \A i \in 1..Len(stdin_read) : IsNotificationLine(LineAt(i)) => OutputsOf(i) = {}
    /\ ((\E i \in 1..Len(stdin_read) : IsNotificationLine(LineAt(i))) /\ ~eof)
          => pc = "AwaitingLine"

\* a notification with an id and params, then a request that is served
C7_Witness ==
    /\ Len(stdin_read) = 2
    /\ IsNotificationLine(LineAt(1))
    /\ "id" \in DOMAIN LineAt(1).value[2]
    /\ "params" \in DOMAIN LineAt(1).value[2]
    /\ IsToolsList(LineAt(2))
    /\ Len(stdout) = 1 /\ cause = <<2>>

(***************************************************************************)
(* C8: a request with an unknown or missing method, a tools/call of a tool *)
(* other than query_qdrant, and a tools/call in which a backend raises,    *)
(* each get one error response {jsonrpc, id, error: {code: -32000,         *)
(* message}} without result; the next request is then served normally.     *)
(***************************************************************************)
IsToolCall(line) == IsRequest(line) /\ MethodOf(line) = JStr("tools/call")

ToolNameOf(line) == Get(Get(line.value, "params", EmptyDict), "name", JNull)

UnknownOrMissingMethod(line) ==
    /\ IsRequest(line)
    /\ ~IsNotificationLine(line)
    /\ MethodOf(line) = JNull \/ IsStr(MethodOf(line))
    /\ MethodOf(line) \notin {JStr("initialize"), JStr("tools/list"), JStr("tools/call")}

OtherTool(line) ==
    /\ IsToolCall(line)
    /\ IsDict(Get(line.value, "params", EmptyDict))
    /\ ToolNameOf(line) # JStr("query_qdrant")

BackendFailure(i) ==
    /\ LineAt(i) \in CallLines
    /\ BackendRaises(BackendAt(i))

C8_DispatchErrorsAnswered ==
    \A i \in 1..Len(stdin_read) :
        (UnknownOrMissingMethod(LineAt(i)) \/ OtherTool(LineAt(i)) \/ BackendFailure(i)) =>
            /\ Cardinality(OutputsOf(i)) = 1
            /\ \A k \in OutputsOf(i) :
                  /\ IsErrorResponse(stdout[k])
                  /\ stdout[k].id = ExpectedId(LineAt(i))
            /\ ~eof => pc = "AwaitingLine"
            /\ (i < Len(stdin_read) /\ IsToolsList(LineAt(i + 1))) =>
                  \E k \in OutputsOf(i + 1) :
                      stdout[k] = SuccessResponse(ExpectedId(LineAt(i + 1)),
                                                  [tools |-> <<ToolDescriptor>>])

(***************************************************************************)
(* C9: the loop closes only on end-of-input: the step that closes it reads *)
(* no line and writes none, no iteration that handled a line closes it,    *)
(* nothing is written once it is closed, and on a finite input the loop    *)
(* eventually closes.                                                      *)
(***************************************************************************)
ClosesOnlyAtEOF ==
    /\ (pc # "Closed" /\ pc' = "Closed") =>
          (eof' /\ stdin_read' = stdin_read /\ stdout' = stdout)
    /\ pc = "Closed" => (pc' = "Closed" /\ stdout' = stdout /\ stdin_read' = stdin_read)

C9_ClosedOnlyOnEOF ==
    /\ [](pc = "Closed" <=> eof)
    /\ [][ClosesOnlyAtEOF]_vars
    /\ <>(pc = "Closed")

\* closed after a backend failure and an unparsable line
C9_Witness ==
    /\ pc = "Closed"
    /\ Len(stdin_read) = 2
    /\ BackendFailure(1)
    /\ ~LineAt(2).json

(***************************************************************************)
(* C10: responses are written in the order their requests were read: what  *)
(* an iteration writes is the response to the line it has just read, put   *)
(* behind everything written before, so the response to line i is on       *)
(* standard output before line j > i is read.                              *)
(***************************************************************************)
WritesBehind ==
    /\ Len(stdout') >= Len(stdout)
    /\ SubSeq(stdout', 1, Len(stdout)) = stdout
    /\ \A k \in (Len(stdout) + 1)..Len(stdout') :
          /\ Len(stdin_read') = Len(stdin_read) + 1
          /\ cause'[k] = Len(stdin_read')

InReadOrder == \A k, l \in 1..Len(stdout) : k < l => cause[k] < cause[l]

C10_ResponsesInOrder == [](InReadOrder) /\ [][WritesBehind]_vars

\* two answered lines, an error and then a result
C10_Witness ==
    /\ Len(stdin_read) = 2
    /\ cause = <<1, 2>>
    /\ "error" \in DOMAIN stdout[1]
    /\ "result" \in DOMAIN stdout[2]

(***************************************************************************)
(* C11: is_relevant_file answers every path and query by the decision      *)
(* table, matching fragments and terms as substrings without regard to     *)
(* case: priority and not low-priority gives (True, "core API file");      *)
(* else low-priority with a vocabulary term in the query gives (True,      *)
(* "example file (may contain usage patterns)"); else low-priority gives   *)
(* (False, "example file (low priority for this query)"); else (True,      *)
(* "potentially relevant").  So a file is excluded only when its path has  *)
(* examples/, benches/ or tests/ and the query has no vocabulary term, and *)
(* a second call with the same arguments gives the same verdict.           *)
(***************************************************************************)
\* frag, written in lower case, occurs in s in some mix of cases
OccursIgnoringCase(s, frag) ==
    \E i \in 0..(Len(s) - Len(frag)) :
        \A j \in 1..Len(frag) : LowerChar(CharAt(s, i + j)) = CharAt(frag, j)

OnPriorityPath(path) == \E p \in priority_paths : OccursIgnoringCase(path, p)

OnLowPriorityPath(path) ==
    \E p \in {"examples/", "benches/", "tests/"} : OccursIgnoringCase(path, p)

HasVocabulary(query) ==
    \E term \in ecs_terms \cup rendering_terms : OccursIgnoringCase(query, term)

DecisionTable(path, query) ==
    CASE OnPriorityPath(path) /\ ~OnLowPriorityPath(path) -> <<TRUE, "core API file">>
      [] OnLowPriorityPath(path) /\ HasVocabulary(query) ->
            <<TRUE, "example file (may contain usage patterns)">>
      [] OnLowPriorityPath(path) /\ ~HasVocabulary(query) ->
            <<FALSE, "example file (low priority for this query)">>
      [] OTHER -> <<TRUE, "potentially relevant">>

SoftFileError(path) == FS(path).state # "file"

Diagnostic(path) ==
    IF FS(path).state = "missing"
    THEN "*File not found at " \o BEVY_SOURCE_PATH \o "/" \o path \o "*"
    ELSE "*Error reading file: " \o FS(path).err \o "*"

\* candidate i is in the results and in the content list, its content being d
AppendedWith(i, d) ==
    \E k \in 1..Len(call_out.did.results) :
        /\ call_out.did.results[k].path = CandidatePath(call_out.did.candidates[i])
        /\ call_out.did.results[k].score = call_out.did.candidates[i].score
        /\ call_out.did.results[k].content = d
        /\ call_out.outcome.value.content[k].text.content = d

C12_FileErrorsAreSoft ==
    (call_pc = "done" /\ call_out.did.called /\ ~BackendRaises(call_backend)) =>
        /\ call_out.outcome.ok
        /\ \A i \in 1..call_out.did.processed :
              (/\ i \in Eligible(call_out.did.candidates, CallQueryText)
               /\ SoftFileError(CandidatePath(call_out.did.candidates[i])))
              => AppendedWith(i, Diagnostic(CandidatePath(call_out.did.candidates[i])))

\* an unreadable file, a candidate without a path and a missing file are the
\* three results of one successful call
C12_Witness ==
    /\ Searched
    /\ Len(call_out.did.results) = 3
    /\ call_out.did.results[1].path = "Tests/Locked.rs"
    /\ call_out.did.results[1].content = "*Error reading file: [Errno 13] Permission denied*"
    /\ call_out.did.results[2].path = "Unknown"
    /\ call_out.did.results[3].path = "docs/guide.md"
    /\ call_out.did.results[3].content = Diagnostic("docs/guide.md")
    /\ Len(call_out.outcome.value.content) = 3

(***************************************************************************)
(* C13: the loop keeps no state between requests: whatever lines were read *)
(* before it, every tools/list request is answered with the same result,   *)
(* exactly one descriptor, named "query_qdrant", whose input schema lists  *)
(* "query" as required; and no step of the loop changes the collection,    *)
(* the source root or the minimum relevance score resolved at startup.     *)
(***************************************************************************)
\* the result of the response to input line i
ResultOf(i) == stdout[CHOOSE k \in OutputsOf(i) : TRUE].result

OneQueryTool(result) ==
    /\ Len(result.tools) = 1
    /\ result.tools[1].name = "query_qdrant"
    /\ \E r \in 1..Len(result.tools[1].inputSchema.required) :
          result.tools[1].inputSchema.required[r] = "query"

ToolsListIsConstant ==
    \A i \in 1..Len(stdin_read) :
        IsToolsList(LineAt(i)) =>
            /\ Cardinality(OutputsOf(i)) = 1
            /\ \A k \in OutputsOf(i) : "result" \in DOMAIN stdout[k]
            /\ OneQueryTool(ResultOf(i))
            /\ \A j \in 1..Len(stdin_read) :
                  IsToolsList(LineAt(j)) => ResultOf(j) = ResultOf(i)

ConfigIsReadOnly == config' = config

C13_Stateless ==
    /\ [](ToolsListIsConstant /\ config = Config)
    /\ [][ConfigIsReadOnly]_vars

\* tools/list is answered after a tools/call that failed in a backend
C13_Witness ==
    /\ Len(stdin_read) = 2
    /\ BackendFailure(1)
    /\ IsToolsList(LineAt(2))
    /\ OutputsOf(2) # {}
    /\ OneQueryTool(ResultOf(2))
    /\ config = Config

(***************************************************************************)
(* C14: the list query_qdrant returns is exactly the first top_k           *)
(* candidates, in the backend's order, with score >= MIN_RELEVANCE_SCORE   *)
(* that is_relevant_file accepts (all of them when there are fewer);       *)
(* skipped candidates use up no top_k; once top_k results are collected no *)
(* later candidate is classified or read; and the results are in           *)
(* descending score order whenever the backend's list is.                  *)
(***************************************************************************)
\* the indices of the first top_k eligible candidates
FirstEligible(candidates, text, top_k) ==
    {i \in Eligible(candidates, text) :
        Cardinality({j \in Eligible(candidates, text) : j < i}) < top_k}

\* the last candidate the loop may look at: the one that completes top_k
\* results, or the end of the list
LastNeeded(candidates, text, top_k) ==
    IF Cardinality(FirstEligible(candidates, text, top_k)) < top_k
    THEN Len(candidates)
    ELSE IF FirstEligible(candidates, text, top_k) = {} THEN 0
    ELSE CHOOSE i \in FirstEligible(candidates, text, top_k) :
            \A j \in FirstEligible(candidates, text, top_k) : j <= i

ExactlyFirstTopK(candidates, text, top_k, results, processed) ==
    /\ Len(results) = Cardinality(FirstEligible(candidates, text, top_k))
    /\ \A k \in 1..Len(results) :
          \E i \in FirstEligible(candidates, text, top_k) :
              /\ Cardinality({j \in FirstEligible(candidates, text, top_k) : j < i}) = k - 1
              /\ results[k].path = CandidatePath(candidates[i])
              /\ results[k].score = candidates[i].score
    /\ processed = LastNeeded(candidates, text, top_k)
    /\ Descending(candidates) => Descending(results)

C14_ExactlyFirstTopK ==
    Searched =>
        ExactlyFirstTopK(call_out.did.candidates, CallQueryText, call_out.did.top_k,
                         call_out.did.results, call_out.did.processed)

\* the same statement for the calls with top_k >= 1
ExactlyFirstTopKWhenPositive ==
    (Searched /\ call_out.did.top_k >= 1) => C14_ExactlyFirstTopK

(***************************************************************************)
(* C15: when the file is longer than max_chars and at least one line       *)
(* contains a query token, the excerpt read_file_content builds, before    *)
(* any final truncation, is made of exactly the lines whose index is       *)
(* within 20 of one of the first 5 matching line indices (idx - 20 up to   *)
(* idx + 20, clamped to the file), each once, in ascending order, joined   *)
(* by newlines; matches after the fifth add no window.                     *)
(***************************************************************************)
\* the 0-based indices of the lines of the file that contain a token of the query
MatchingLines(lines, query) ==
    {i \in 0..(Len(lines) - 1) :
        \E k \in 1..Len(SplitWS(Lower(query))) :
            OccursIgnoringCase(lines[i + 1], SplitWS(Lower(query))[k])}

\* the first n elements of a set of integers
FirstOf(S, n) == {i \in S : Cardinality({j \in S : j < i}) < n}

\* the lines from idx - before to idx + after, for idx one of the first 5
\* matches, each once, joined in ascending order
WindowOf(lines, query, before, after) ==
    ExtractLines(lines,
        Sorted({i \in 0..(Len(lines) - 1) :
                   \E idx \in FirstOf(MatchingLines(lines, query), 5) :
                       idx - before <= i /\ i <= idx + after}))

\* the returned string is the excerpt, cut at max_chars when it does not fit
ReturnsExcerpt(out, excerpt, max_chars) ==
    IF Len(excerpt) < max_chars THEN out = excerpt
    ELSE Take(out, max_chars) = Take(excerpt, max_chars)

Windowed ==
    /\ rf_pc = "done"
    /\ FS(rf_path).state = "file"
    /\ Len(FS(rf_path).content) > rf_max
    /\ MatchingLines(SplitNL(FS(rf_path).content), rf_query) # {}

C15_WindowWithin20 ==
    Windowed =>
        ReturnsExcerpt(rf_out, WindowOf(SplitNL(FS(rf_path).content), rf_query, 20, 20), rf_max)

\* what the code builds: the window of a match at idx ends with line idx + 19
WindowStopsAt19 ==
    Windowed =>
        ReturnsExcerpt(rf_out, WindowOf(SplitNL(FS(rf_path).content), rf_query, 20, 19), rf_max)

(***************************************************************************)
(* C16: the call shapes are tried in the order query_points, search,       *)
(* search_points, each with the same collection, vector and limit; a shape *)
(* is tried only when the one before it failed with AttributeError; any    *)
(* other failure of a shape, and an AttributeError of the last shape,      *)
(* leaves query_qdrant without a further attempt and is answered with a    *)
(* per-request error; no shape is tried after one has succeeded.           *)
(***************************************************************************)
ShapeOrder == <<"query_points", "search", "search_points">>

\* calls are attempts of the first shapes, in order and with the same
\* arguments, each but the last having failed with AttributeError, and the
\* last being the third or having ended otherwise
TriedInFallbackOrder(calls, backend) ==
    /\ Len(calls) \in 1..3
    /\ \A k \in 1..Len(calls) :
          /\ calls[k].shape = ShapeOrder[k]
          /\ calls[k].collection_name = calls[1].collection_name
          /\ calls[k].vector = calls[1].vector
          /\ calls[k].limit = calls[1].limit
    /\ \A k \in 1..(Len(calls) - 1) :
          ~backend[ShapeOrder[k]].ok /\ backend[ShapeOrder[k]].exc.type = "AttributeError"
    /\ \/ Len(calls) = 3
       \/ backend[ShapeOrder[Len(calls)]].ok
       \/ backend[ShapeOrder[Len(calls)]].exc.type # "AttributeError"

\* how the last attempt ended
LastShapeOutcome(calls, backend) == backend[ShapeOrder[Len(calls)]]

\* what handle_call_tool does for input line i
CallAt(i) == handle_call_tool(LineAt(i).value, BackendAt(i))

C16_ShapesInOrder ==
    \A i \in 1..Len(stdin_read) :
        (LineAt(i) \in CallLines /\ BackendAt(i).embed.ok) =>
            /\ TriedInFallbackOrder(CallAt(i).did.shapes, BackendAt(i))
            /\ ~LastShapeOutcome(CallAt(i).did.shapes, BackendAt(i)).ok =>
                  /\ Cardinality(OutputsOf(i)) = 1
                  /\ \A k \in OutputsOf(i) :
                        /\ IsErrorResponse(stdout[k])
                        /\ stdout[k].error.message =
                              LastShapeOutcome(CallAt(i).did.shapes, BackendAt(i)).exc.msg

\* the part of C16 inside query_qdrant, for every way the shapes can end: the
\* order, the arguments, and the failure leaving the call as it was raised
ShapesTriedInOrder ==
    (call_pc = "done" /\ call_out.did.called /\ call_backend.embed.ok) =>
        /\ TriedInFallbackOrder(call_out.did.shapes, call_backend)
        /\ ~LastShapeOutcome(call_out.did.shapes, call_backend).ok =>
              call_out.outcome = LastShapeOutcome(call_out.did.shapes, call_backend)
        /\ LastShapeOutcome(call_out.did.shapes, call_backend).ok =>
              /\ call_out.outcome.ok
              /\ call_out.did.candidates =
                    LastShapeOutcome(call_out.did.shapes, call_backend).value

(***************************************************************************)
(* C17: on every search the limit passed to the vector store is 3 * top_k, *)
(* which is strictly more than the number of results the call returns and  *)
(* at least twice top_k; and every search that reaches the vector store    *)
(* has top_k >= 1.                                                         *)
(***************************************************************************)
\* a finished call of handle_call_tool whose query_qdrant got to the vector store
ReachedStore ==
    call_pc = "done" /\ call_out.did.called /\ Len(call_out.did.shapes) >= 1

LimitIsTriple ==
    \A k \in 1..Len(call_out.did.shapes) :
        call_out.did.shapes[k].limit = 3 * call_out.did.top_k

Oversampled ==
    \A k \in 1..Len(call_out.did.shapes) :
        /\ call_out.did.shapes[k].limit > Len(call_out.did.results)
        /\ call_out.did.shapes[k].limit >= 2 * call_out.did.top_k

C17_Oversampling ==
    ReachedStore => (LimitIsTriple /\ Oversampled /\ call_out.did.top_k >= 1)

\* what holds of every search, and of the searches with top_k >= 1
OversampledWhenPositive ==
    ReachedStore => (LimitIsTriple /\ (call_out.did.top_k >= 1 => Oversampled))

(***************************************************************************)
(* C18: when the file exists, is readable and its content is at most       *)
(* max_chars long (exactly max_chars included), read_file_content returns  *)
(* the content unchanged: no marker, no window, whether or not a line      *)
(* matches a query token, and for the empty query too.                     *)
(***************************************************************************)
C18_SmallFileUnchanged ==
    (rf_pc = "done" /\ FS(rf_path).state = "file" /\ Len(FS(rf_path).content) <= rf_max)
        => rf_out = FS(rf_path).content

\* a file of exactly max_chars characters with a line that matches the query
C18_Witness ==
    /\ rf_pc = "done"
    /\ rf_path = "crates/bevy_ecs/src/system/query.rs"
    /\ rf_query = "spawn entity"
    /\ Len(FS(rf_path).content) = rf_max
    /\ rf_out = "pub struct Query;\nfn spawn() {}\n"

(***************************************************************************)
(* C19: a successful tools/call of query_qdrant returns a content list     *)
(* that is never empty: one text block per result, in result order, when   *)
(* there is a result, and exactly one advisory text block ("No relevant    *)
(* results found...") when there is none; so it has max(1, number of       *)
(* results) blocks, and at most max(1, top_k).                             *)
(***************************************************************************)
BlocksOfCall == call_out.outcome.value.content

IsAdvisory(block) ==
    /\ block.type = "text"
    /\ DOMAIN block.text = {"advice"}
    /\ SubSeq(block.text.advice, 1, 26) = "No relevant results found."

\* block k is the text block of result k
IsBlockOf(block, k, result) ==
    /\ block.type = "text"
    /\ block.text.number = k
    /\ block.text.file = result.path
    /\ block.text.relevance = result.score
    /\ block.text.reason = result.relevance_reason
    /\ block.text.content = result.content

RECURSIVE Written(_)
Written(xs) == IF xs = <<>> THEN "" ELSE Head(xs) \o Written(Tail(xs))

\* the lines of a text, a final line terminator ending the last line
LinesOf(text) ==
    IF text = "" THEN <<>>
    ELSE IF CharAt(text, Len(text)) = "\n" THEN SplitNL(Take(text, Len(text) - 1))
    ELSE SplitNL(text)

\* a line without its terminator
Chomp(line) ==
    IF line # "" /\ CharAt(line, Len(line)) = "\n" THEN Take(line, Len(line) - 1) ELSE line

\* the text after the last prefix, without the terminator and the leading
\* colons, spaces and tabs
AfterPrefix(line) ==
    LStripColons(Drop(Chomp(line), RFind(Chomp(line), prefix) + Len(prefix)))

\* the output lines the statement gives one input line
StatedLines(raw) ==
    IF IsBlank(RemoveAnsi(raw)) \/ IsDebugLine(RemoveAnsi(raw)) THEN <<>>
    ELSE IF ~Contains(RemoveAnsi(raw), prefix) THEN <<Chomp(RemoveAnsi(raw))>>
    ELSE IF AfterPrefix(RemoveAnsi(raw)) = "" THEN <<>>
    ELSE <<AfterPrefix(RemoveAnsi(raw))>>

RECURSIVE StatedOutput(_)
StatedOutput(lines) ==
    IF lines = <<>> THEN <<>> ELSE StatedLines(Head(lines)) \o StatedOutput(Tail(lines))

C20_NoBlankOutputLine ==
    fl_pc = "done" =>
        /\ \A k \in 1..Len(LinesOf(Written(fl_out))) : ~IsBlank(LinesOf(Written(fl_out))[k])
        /\ LinesOf(Written(fl_out)) = StatedOutput(fl_lines)

\* what holds of the code: the lines without the prefix, the blank lines and
\* the DEBUG lines are treated as stated
UnprefixedLinesAsStated ==
    (fl_pc = "done" /\ \A i \in 1..Len(fl_lines) : ~Contains(fl_lines[i], prefix)) =>
        /\ \A k \in 1..Len(LinesOf(Written(fl_out))) : ~IsBlank(LinesOf(Written(fl_out))[k])
        /\ LinesOf(Written(fl_out)) = StatedOutput(fl_lines)

====
